---- MODULE Spec2Model ----
(***************************************************************************)
(* CodeGenMixin (e3nn/util/codegen/_mixin.py): registration of generated   *)
(* sub-modules, __getstate__ (snapshot) and __setstate__ (restore).        *)
(*                                                                         *)
(* A host is a Python object whose __dict__ holds "_modules" (a reference  *)
(* to an ordered dict of children), optionally "__codegen__" (the list of  *)
(* managed names) and the collaborators' other fields (one opaque value,   *)
(* base).  Ordered dicts live in a heap, so that two objects holding the   *)
(* same dict are visible as such.                                          *)
(***************************************************************************)
EXTENDS Integers, Sequences, FiniteSets, TLC

VARIABLES hosts, blobs, heap, ncalls, nreg, last

vars == <<hosts, blobs, heap, ncalls, nreg, last>>

----------------------------------------------------------------------------
(* Bounds of the exploration *)

\* calls (of the mixin's methods and of its collaborators) explored in
\* one behaviour
MaxCalls == 4
\* register calls among them
MaxRegister == 2

----------------------------------------------------------------------------
(* Universe *)

\* "h1" is constructed by its class's __init__; "h2" and "h3" are objects
\* made by cls.__new__ that wait for __setstate__ (fresh hosts).
HostOrder == <<"h1", "h2", "h3">>
Hosts == {HostOrder[i] : i \in 1..Len(HostOrder)}
\* state blobs returned by __getstate__ (each slot is filled at most once)
BlobOrder == <<"b1", "b2">>
Blobs == {BlobOrder[i] : i \in 1..Len(BlobOrder)}
\* addresses of the ordered dicts of children
ModIds == Hosts \cup Blobs
\* names of generated sub-modules
Names == {"a", "b"}
\* names the collaborators give to children they add themselves
ChildNames == {"a", "n"}
\* values of e3nn.get_optimization_defaults()["jit_mode"]
Modes == {"script", "none", "inductor"}

NoUnit == [kind |-> "none", id |-> 0]
\* a child that is no generated unit (any other torch.nn.Module)
OtherUnit == [kind |-> "other", id |-> 0]
\* a child wrapped by torch.compile
OptUnit == [kind |-> "opt", id |-> 0]
\* a child the host's class compiled itself (torch.jit.script)
ScriptUnit == [kind |-> "script", id |-> 0]

----------------------------------------------------------------------------
(* Ordered dicts: a sequence of [k, v] entries with distinct keys *)

Keys(m) == [i \in 1..Len(m) |-> m[i].k]

KeySet(m) == {m[i].k : i \in 1..Len(m)}

Has(m, k) == \E i \in 1..Len(m) : m[i].k = k

Get(m, k) == IF Has(m, k) THEN m[CHOOSE i \in 1..Len(m) : m[i].k = k].v ELSE NoUnit

\* d[k] = v: an existing key keeps its position, a new key goes last
Put(m, k, v) ==
    IF Has(m, k)
    THEN [i \in 1..Len(m) |-> IF m[i].k = k THEN [k |-> k, v |-> v] ELSE m[i]]
    ELSE Append(m, [k |-> k, v |-> v])

\* del d[k]
Del(m, k) == SelectSeq(m, LAMBDA e : e.k # k)

\* list.extend(keys)
Extend(reg, ks) == reg \o ks

----------------------------------------------------------------------------
(* External services *)

\* e3nn.util.jit.compile(graphmod, recurse=False): a ScriptModule made
\* from the graph module
Compile(u) == [kind |-> "script", id |-> u.id]

IsSymbolic(u) == u.kind \in {"graph", "opt"}

IsCompiled(u) == u.kind = "script"

\* pickle.dumps(smod)
PickleDumps(u) == [fmt |-> "pickle", cls |-> u.kind, id |-> u.id]

\* torch.jit.save(smod, buffer_io); buffer_io.getvalue()
JitSave(u) == [fmt |-> "jit", cls |-> u.kind, id |-> u.id]

\* (variant: an optimized module is loaded as the graph module it wraps)
PickleLoadsAsGraph(buf) ==
    IF buf.fmt = "pickle"
    THEN [ok |-> TRUE,
          val |-> [kind |-> IF buf.cls = "opt" THEN "graph" ELSE buf.cls, id |-> buf.id]]
    ELSE [ok |-> FALSE, val |-> NoUnit]

\* pickle.loads(buffer): raises on bytes that are no pickle stream
PickleLoads(buf) ==
    IF buf.fmt = "pickle"
    THEN [ok |-> TRUE, val |-> [kind |-> buf.cls, id |-> buf.id]]
    ELSE [ok |-> FALSE, val |-> NoUnit]

\* torch.jit.load(io.BytesIO(buffer)): raises on bytes that are no
\* TorchScript archive, and otherwise always builds a ScriptModule
JitLoad(buf) ==
    IF buf.fmt = "jit"
    THEN [ok |-> TRUE, val |-> [kind |-> "script", id |-> buf.id]]
    ELSE [ok |-> FALSE, val |-> NoUnit]

\* isinstance(buffer, bytes)
IsBytes(buf) == buf.fmt # "live"

----------------------------------------------------------------------------
(* _codegen_register *)

\* the registry as the rest of the code sees it
HasReg(h) == h.hasreg

\* (variant: the list is assigned anew on every call)
RegisterNamesReset(h, funcs) == [h EXCEPT !.hasreg = TRUE, !.reg = Keys(funcs)]

\* lines 32-35: create the list on the first call, then extend it
RegisterNames(h, funcs) ==
    [h EXCEPT !.hasreg = TRUE,
              !.reg = Extend(IF HasReg(h) THEN h.reg ELSE <<>>, Keys(funcs))]

\* (variant: every mode but "none" compiles)
LowerUnlessNone(graphmod, mode) ==
    IF mode # "none" THEN Compile(graphmod) ELSE graphmod

\* lines 42-48: the unit that is installed for graphmod
Lower(graphmod, mode) == IF mode = "script" THEN Compile(graphmod) ELSE graphmod

\* (variant: a unit the compiler fails on is installed as it is)
RECURSIVE RegisterLoopFallback(_, _, _, _, _)
RegisterLoopFallback(mods, funcs, i, mode, cerr) ==
    IF i > Len(funcs) THEN [ok |-> TRUE, mods |-> mods, ncomp |-> 0]
    ELSE IF funcs[i].v.kind # "graph" THEN [ok |-> FALSE, mods |-> mods, ncomp |-> 0]
    ELSE LET u == IF mode = "script" /\ cerr # i THEN Compile(funcs[i].v) ELSE funcs[i].v
             r == RegisterLoopFallback(Put(mods, funcs[i].k, u), funcs, i + 1, mode, cerr)
         IN  [r EXCEPT !.ncomp = @ + (IF mode = "script" THEN 1 ELSE 0)]

\* lines 39-51: the loop over funcs.items(), from item i on.  cerr is the
\* position at which the compiler raises (0: it never does); ncomp counts
\* the calls of the compiler.
RECURSIVE RegisterLoop(_, _, _, _, _)
RegisterLoop(mods, funcs, i, mode, cerr) ==
    IF i > Len(funcs) THEN [ok |-> TRUE, mods |-> mods, ncomp |-> 0]
    ELSE IF funcs[i].v.kind # "graph" THEN [ok |-> FALSE, mods |-> mods, ncomp |-> 0]
    ELSE IF mode = "script" /\ cerr = i THEN [ok |-> FALSE, mods |-> mods, ncomp |-> 1]
    ELSE LET r == RegisterLoop(Put(mods, funcs[i].k, Lower(funcs[i].v, mode)),
                               funcs, i + 1, mode, cerr)
         IN  [r EXCEPT !.ncomp = @ + (IF mode = "script" THEN 1 ELSE 0)]

----------------------------------------------------------------------------
(* State *)

\* recs: the (buffer_type, buffer) records held in the host's __dict__;
\* (origin records the state a fresh host was restored from)
FreshHost == [init |-> FALSE, base |-> 0, mods |-> "null", hasreg |-> FALSE, reg |-> <<>>,
              recs |-> <<>>, origin |-> "none"]

NewHost(h) == [init |-> TRUE, base |-> 1, mods |-> h, hasreg |-> FALSE, reg |-> <<>>,
               recs |-> <<>>, origin |-> "none"]

\* (src records the host a state was taken from)
NoBlob == [used |-> FALSE, base |-> 0, mods |-> "null", hascg |-> FALSE, cg |-> <<>>,
           src |-> "h1"]

\* the children of host h, through its _modules reference
Children(h) == IF hosts[h].mods = "null" THEN <<>> ELSE heap[hosts[h].mods]

\* what a caller can observe of host h
View(h) == [base |-> hosts[h].base, hasreg |-> hosts[h].hasreg,
            reg |-> hosts[h].reg, kids |-> Children(h)]

NoView == [base |-> 0, hasreg |-> FALSE, reg |-> <<>>, kids |-> <<>>]

\* the most recent call: its arguments, whether it returned normally, and
\* what the host looked like when it was made
NoCall == [op |-> "init", h |-> "h1", b |-> "b1", ok |-> TRUE,
           funcs |-> <<>>, mode |-> "none", pre |-> NoView, fresh |-> FALSE,
           cerr |-> 0, ncomp |-> 0, bkids |-> <<>>, pure |-> TRUE, allok |-> TRUE]

\* the record of a call of the mixin (pure, allok: so far no collaborator
\* has acted, and every call of _codegen_register and of __setstate__ has
\* returned normally)
Call(c) == [c EXCEPT !.pure = last.pure,
                     !.allok = last.allok /\ (c.ok \/ c.op = "snapshot")]

\* the record of a call of a collaborator
EnvCall(c) == [c EXCEPT !.pure = FALSE, !.allok = last.allok]

Init ==
    /\ hosts = [h \in Hosts |-> IF h = "h1" THEN NewHost(h) ELSE FreshHost]
    /\ blobs = [b \in Blobs |-> NoBlob]
    /\ heap = [m \in ModIds |-> <<>>]
    /\ ncalls = 0
    /\ nreg = 0
    /\ last = NoCall

\* the funcs mappings explored: distinct names, each with a new
\* fx.GraphModule (its identity is the number of the call that passes it)
FuncsOf(names, id) ==
    [i \in 1..Len(names) |-> [k |-> names[i], v |-> [kind |-> "graph", id |-> id]]]

NameSeqs ==
    {s \in UNION {[1..n -> Names] : n \in 0..Cardinality(Names)} :
        \A i, j \in 1..Len(s) : i # j => s[i] # s[j]}

Register(h, funcs, mode, cerr) ==
    LET h1 == RegisterNames(hosts[h], funcs)
        r == RegisterLoop(heap[h1.mods], funcs, 1, mode, cerr)
    IN  /\ hosts' = [hosts EXCEPT ![h] = h1]
        /\ heap' = [heap EXCEPT ![h1.mods] = r.mods]
        /\ ncalls' = ncalls + 1
        /\ nreg' = nreg + 1
        /\ last' = Call([NoCall EXCEPT !.op = "register", !.h = h, !.ok = r.ok,
                                        !.funcs = funcs, !.mode = mode, !.pre = View(h),
                                        !.cerr = cerr, !.ncomp = r.ncomp])
        /\ UNCHANGED blobs

DoRegister ==
    \E h \in Hosts, names \in NameSeqs, mode \in Modes :
      \E cerr \in 0..Len(names) :
        /\ hosts[h].init
        /\ ncalls < MaxCalls
        /\ nreg < MaxRegister
        /\ cerr > 0 => mode = "script"
        /\ Register(h, FuncsOf(names, nreg + 1), mode, cerr)

----------------------------------------------------------------------------
(* __getstate__ *)

\* (variant: every unit is pickled)
EncodePickled(smod) == [tag |-> "fx", buf |-> PickleDumps(smod)]

\* lines 79-94: the (buffer_type, buffer) pair saved for smod
Encode(smod) ==
    IF IsSymbolic(smod) THEN [tag |-> "fx", buf |-> PickleDumps(smod)]
    ELSE [tag |-> "torchscript", buf |-> JitSave(smod)]

\* (variant: the saved unit is not removed from the state's children)
RECURSIVE SnapshotLoopKeep(_, _, _, _, _)
SnapshotLoopKeep(live, out, cg, reg, i) ==
    IF i > Len(reg) THEN [ok |-> TRUE, mods |-> out, cg |-> cg]
    ELSE LET fname == reg[i]
             smod == Get(live, fname)
         IN  IF ~Has(live, fname) \/ ~(IsSymbolic(smod) \/ IsCompiled(smod))
             THEN [ok |-> FALSE, mods |-> out, cg |-> cg]
             ELSE SnapshotLoopKeep(live, out, Put(cg, fname, Encode(smod)), reg, i + 1)

\* (variant: a unit of an unknown representation is dropped from the state)
RECURSIVE SnapshotLoopDrop(_, _, _, _, _)
SnapshotLoopDrop(live, out, cg, reg, i) ==
    IF i > Len(reg) THEN [ok |-> TRUE, mods |-> out, cg |-> cg]
    ELSE LET fname == reg[i]
             smod == Get(live, fname)
         IN  IF ~Has(live, fname)
             THEN [ok |-> FALSE, mods |-> out, cg |-> cg]
             ELSE IF ~(IsSymbolic(smod) \/ IsCompiled(smod))
             THEN SnapshotLoopDrop(live, Del(out, fname), cg, reg, i + 1)
             ELSE IF ~Has(out, fname)
             THEN [ok |-> FALSE, mods |-> out, cg |-> cg]
             ELSE SnapshotLoopDrop(live, Del(out, fname),
                                   Put(cg, fname, Encode(smod)), reg, i + 1)

\* lines 74-97: the loop over self.__codegen__, from entry i on.  live is
\* the host's own dict of children, out the copy held by the state.
RECURSIVE SnapshotLoop(_, _, _, _, _)
SnapshotLoop(live, out, cg, reg, i) ==
    IF i > Len(reg) THEN [ok |-> TRUE, mods |-> out, cg |-> cg]
    ELSE LET fname == reg[i]
             smod == Get(live, fname)
         IN  IF ~Has(live, fname)
             THEN [ok |-> FALSE, mods |-> out, cg |-> cg]
             ELSE IF ~(IsSymbolic(smod) \/ IsCompiled(smod))
             THEN [ok |-> FALSE, mods |-> out, cg |-> cg]
             ELSE IF ~Has(out, fname)
             THEN [ok |-> FALSE, mods |-> out, cg |-> cg]
             ELSE SnapshotLoop(live, Del(out, fname),
                               Put(cg, fname, Encode(smod)), reg, i + 1)

\* lines 55-100: the state returned for host record h whose children are live
GetState(h, live) ==
    LET r == IF HasReg(h) THEN SnapshotLoop(live, live, <<>>, h.reg, 1)
             ELSE [ok |-> TRUE, mods |-> live, cg |-> <<>>]
    IN  [ok |-> r.ok, base |-> h.base, kids |-> r.mods,
         hascg |-> HasReg(h), cg |-> r.cg]

\* (variant: the state keeps the host's own dict)
ModulesOfStateAliased(h, b) == h.mods

\* lines 66-69: the dict that out["_modules"] refers to is a new one (at
\* address b), not the host's own
ModulesOfState(h, b) == b

Snapshot(h, b) ==
    LET r == GetState(hosts[h], Children(h))
        m == ModulesOfState(hosts[h], b)
    IN  /\ blobs' = IF r.ok
                    THEN [blobs EXCEPT ![b] = [used |-> TRUE, base |-> r.base, mods |-> m,
                                               hascg |-> r.hascg, cg |-> r.cg,
                                               src |-> h]]
                    ELSE blobs
        \* (a new dict is dropped with the state when the call raises)
        /\ heap' = IF r.ok \/ m # b THEN [heap EXCEPT ![m] = r.kids] ELSE heap
        /\ last' = Call([NoCall EXCEPT !.op = "snapshot", !.h = h, !.b = b, !.ok = r.ok,
                                        !.pre = View(h)])
        /\ ncalls' = ncalls + 1
        /\ UNCHANGED <<hosts, nreg>>

\* the next free slot for a returned state
FreeBlob(b) ==
    \E i \in 1..Len(BlobOrder) :
        /\ BlobOrder[i] = b
        /\ ~blobs[b].used
        /\ \A j \in 1..(i - 1) : blobs[BlobOrder[j]].used

DoSnapshot ==
    \E h \in Hosts, b \in Blobs :
        /\ hosts[h].init
        /\ FreeBlob(b)
        /\ ncalls < MaxCalls
        /\ Snapshot(h, b)

----------------------------------------------------------------------------
(* __setstate__ *)

\* (variant: "__codegen__" is not popped, so update() gives it to the host)
ApplyBaseKeepSection(h, blob) ==
    [h EXCEPT !.init = TRUE, !.base = blob.base, !.mods = blob.mods, !.recs = blob.cg]

\* lines 103-112: d = d.copy(); d.pop("__codegen__"); self.__dict__.update(d).
\* The host now holds the very dict of children the state holds.
ApplyBase(h, blob) == [h EXCEPT !.init = TRUE, !.base = blob.base, !.mods = blob.mods]

\* (variant: a decoded graph module is compiled again)
DecodeRecompiled(rec) ==
    IF ~IsBytes(rec.buf) THEN [ok |-> FALSE, val |-> NoUnit]
    ELSE IF rec.tag = "fx"
    THEN LET r == PickleLoads(rec.buf)
         IN  [ok |-> r.ok /\ IsSymbolic(r.val), val |-> Compile(r.val)]
    ELSE IF rec.tag = "torchscript"
    THEN LET r == JitLoad(rec.buf)
         IN  [ok |-> r.ok /\ IsCompiled(r.val), val |-> r.val]
    ELSE [ok |-> FALSE, val |-> NoUnit]

\* lines 116-129: the unit decoded from one record
Decode(rec) ==
    IF ~IsBytes(rec.buf) THEN [ok |-> FALSE, val |-> NoUnit]
    ELSE IF rec.tag = "fx"
    THEN LET r == PickleLoads(rec.buf)
         IN  [ok |-> r.ok /\ IsSymbolic(r.val), val |-> r.val]
    ELSE IF rec.tag = "torchscript"
    THEN LET r == JitLoad(rec.buf)
         IN  [ok |-> r.ok /\ IsCompiled(r.val), val |-> r.val]
    ELSE [ok |-> FALSE, val |-> NoUnit]

\* (variant: a record that cannot be decoded is passed over)
RECURSIVE RestoreLoopSkip(_, _, _)
RestoreLoopSkip(mods, cg, i) ==
    IF i > Len(cg) THEN [ok |-> TRUE, mods |-> mods]
    ELSE LET r == Decode(cg[i].v)
         IN  IF ~r.ok THEN RestoreLoopSkip(mods, cg, i + 1)
             ELSE RestoreLoopSkip(Put(mods, cg[i].k, r.val), cg, i + 1)

\* lines 115-132: the loop over codegen_state.items(), from item i on
RECURSIVE RestoreLoop(_, _, _)
RestoreLoop(mods, cg, i) ==
    IF i > Len(cg) THEN [ok |-> TRUE, mods |-> mods]
    ELSE LET r == Decode(cg[i].v)
         IN  IF ~r.ok THEN [ok |-> FALSE, mods |-> mods]
             ELSE RestoreLoop(Put(mods, cg[i].k, r.val), cg, i + 1)

\* (variant: the names are stored last to first)
SetRegistryReversed(h, cg) ==
    [h EXCEPT !.hasreg = TRUE,
              !.reg = [i \in 1..Len(cg) |-> cg[Len(cg) + 1 - i].k]]

\* line 133
SetRegistry(h, cg) == [h EXCEPT !.hasreg = TRUE, !.reg = Keys(cg)]

\* (variant: the registry is assigned before the records are decoded)
SetStateRegistryFirst(h, blob, kids) ==
    LET h1 == ApplyBase(h, blob)
        r == IF blob.hascg THEN RestoreLoop(kids, blob.cg, 1)
             ELSE [ok |-> TRUE, mods |-> kids]
    IN  [ok |-> r.ok,
         host |-> IF blob.hascg THEN SetRegistry(h1, blob.cg) ELSE h1,
         kids |-> r.mods]

\* lines 102-133: the host record and the dict of children after
\* __setstate__(blob) on host record h; kids is the dict the blob holds
SetState(h, blob, kids) ==
    LET h1 == ApplyBase(h, blob)
        r == IF blob.hascg THEN RestoreLoop(kids, blob.cg, 1)
             ELSE [ok |-> TRUE, mods |-> kids]
    IN  [ok |-> r.ok,
         host |-> IF blob.hascg /\ r.ok THEN SetRegistry(h1, blob.cg) ELSE h1,
         kids |-> r.mods]

\* mode is the jit_mode in force during the call (the code does not read it)
Restore(h, b, mode) ==
    LET r == SetState(hosts[h], blobs[b], heap[blobs[b].mods])
    IN  /\ hosts' = [hosts EXCEPT ![h] = [r.host EXCEPT !.origin =
                                            IF hosts[h].init THEN @ ELSE b]]
        /\ heap' = [heap EXCEPT ![r.host.mods] = r.kids]
        /\ ncalls' = ncalls + 1
        /\ last' = Call([NoCall EXCEPT !.op = "restore", !.h = h, !.b = b, !.ok = r.ok,
                                        !.mode = mode, !.pre = View(h),
                                        !.fresh = ~hosts[h].init,
                                        !.bkids = heap[blobs[b].mods]])
        /\ UNCHANGED <<blobs, nreg>>

\* h exists already, or is the next object made by cls.__new__
Restorable(h) ==
    \E i \in 1..Len(HostOrder) :
        /\ HostOrder[i] = h
        /\ \A j \in 1..(i - 1) : hosts[HostOrder[j]].init

DoRestore ==
    \E h \in Hosts, b \in Blobs, mode \in Modes :
        /\ blobs[b].used
        /\ Restorable(h)
        /\ ncalls < MaxCalls
        /\ Restore(h, b, mode)

----------------------------------------------------------------------------
(* The collaborators: the host's own class and the caller that holds a blob *)

\* self.add_module(name, child) by the host's class
AddChild(h, name, unit) ==
    /\ heap' = [heap EXCEPT ![hosts[h].mods] = Put(@, name, unit)]
    /\ ncalls' = ncalls + 1
    /\ last' = EnvCall([NoCall EXCEPT !.op = "addchild", !.h = h, !.pre = View(h)])
    /\ UNCHANGED <<hosts, blobs, nreg>>

DoAddChild ==
    \E h \in Hosts, name \in ChildNames, unit \in {OtherUnit, OptUnit, ScriptUnit} :
        /\ hosts[h].init
        /\ unit = OptUnit => name \in Names
        /\ unit = ScriptUnit => name \notin Names
        /\ ncalls < MaxCalls
        /\ AddChild(h, name, unit)

\* the host's class assigns one of its own fields
SetBase(h) ==
    /\ hosts' = [hosts EXCEPT ![h].base = 3 - @]
    /\ ncalls' = ncalls + 1
    /\ last' = EnvCall([NoCall EXCEPT !.op = "setbase", !.h = h, !.pre = View(h)])
    /\ UNCHANGED <<blobs, heap, nreg>>

DoSetBase ==
    \E h \in Hosts :
        /\ hosts[h].init
        /\ hosts[h].base \in {1, 2}
        /\ ncalls < MaxCalls
        /\ SetBase(h)

\* records a damaged or foreign state may carry
BadRecords ==
    { [tag |-> "bogus", buf |-> [fmt |-> "pickle", cls |-> "graph", id |-> 1]],
      [tag |-> "fx", buf |-> [fmt |-> "junk", cls |-> "none", id |-> 0]],
      [tag |-> "fx", buf |-> [fmt |-> "pickle", cls |-> "other", id |-> 0]] }

\* the holder of state b overwrites the record of name in its "__codegen__"
EditRecord(b, name, rec) ==
    /\ blobs' = [blobs EXCEPT ![b].cg = Put(@, name, rec)]
    /\ ncalls' = ncalls + 1
    /\ last' = EnvCall([NoCall EXCEPT !.op = "editrecord", !.h = blobs[b].src, !.b = b,
                                       !.pre = View(blobs[b].src)])
    /\ UNCHANGED <<hosts, heap, nreg>>

DoEditRecord ==
    \E b \in Blobs, name \in Names, rec \in BadRecords :
        /\ blobs[b].used
        /\ blobs[b].hascg
        /\ Has(blobs[b].cg, name)
        /\ ncalls < MaxCalls
        /\ EditRecord(b, name, rec)

\* the holder of state b adds a child to its "_modules"
EditChild(b, name) ==
    /\ heap' = [heap EXCEPT ![blobs[b].mods] = Put(@, name, OtherUnit)]
    /\ ncalls' = ncalls + 1
    /\ last' = EnvCall([NoCall EXCEPT !.op = "editchild", !.h = blobs[b].src, !.b = b,
                                       !.pre = View(blobs[b].src)])
    /\ UNCHANGED <<hosts, blobs, nreg>>

DoEditChild ==
    \E b \in Blobs, name \in ChildNames \ Names :
        /\ blobs[b].used
        /\ ncalls < MaxCalls
        /\ EditChild(b, name)

Next ==
    \/ DoRegister
    \/ DoSnapshot
    \/ DoRestore
    \/ DoAddChild
    \/ DoSetBase
    \/ DoEditRecord
    \/ DoEditChild

Spec == Init /\ [][Next]_vars

----------------------------------------------------------------------------
(* Vocabulary of the properties *)

Range(q) == {q[i] : i \in 1..Len(q)}

\* the representation of a unit
Kind(u) ==
    IF IsSymbolic(u) THEN "symbolic" ELSE IF IsCompiled(u) THEN "compiled" ELSE "other"

\* the state the last call returned or was given, and its children
LastBlob == blobs[last.b]
LastBlobKids == heap[blobs[last.b].mods]

\* __setstate__ of the state the last call returned, on a fresh host
RoundTrip == SetState(FreshHost, LastBlob, LastBlobKids)

SnapshotReturned == last.op = "snapshot" /\ last.ok

\* a record as __getstate__ writes them: a known tag and bytes of that format
GoodRecord(rec) ==
    \/ rec.tag = "fx" /\ rec.buf.fmt = "pickle" /\ rec.buf.cls \in {"graph", "opt"}
    \/ rec.tag = "torchscript" /\ rec.buf.fmt = "jit"

KindOfTag(tag) == IF tag = "fx" THEN "symbolic" ELSE "compiled"

NonManaged(kids, reg) == SelectSeq(kids, LAMBDA e : e.k \notin Range(reg))

----------------------------------------------------------------------------
(* C1 *)

\* C1: when __getstate__ returns, __setstate__ of that state on a fresh host
\* succeeds and gives a host with the same registry names, the same set of
\* child names, and for every managed name a unit of the same representation
\* (symbolic or compiled) as in the host the state was taken from.
C1_RoundTrip ==
    SnapshotReturned =>
        /\ RoundTrip.ok
        /\ Range(RoundTrip.host.reg) = Range(last.pre.reg)
        /\ KeySet(RoundTrip.kids) = KeySet(last.pre.kids)
        /\ \A n \in Range(last.pre.reg) :
              /\ Kind(Get(RoundTrip.kids, n)) = Kind(Get(last.pre.kids, n))
              /\ Kind(Get(RoundTrip.kids, n)) # "other"

\* a state was returned for a host with a symbolic unit, a compiled unit
\* and a child that is not managed
C1_Witness ==
    /\ SnapshotReturned
    /\ \E n \in Range(last.pre.reg) : Kind(Get(last.pre.kids, n)) = "symbolic"
    /\ \E n \in Range(last.pre.reg) : Kind(Get(last.pre.kids, n)) = "compiled"
    /\ KeySet(last.pre.kids) # Range(last.pre.reg)

----------------------------------------------------------------------------
(* C2 *)

\* C2: in every reachable state, also one left by a call that raised, every
\* name in a host's registry is the name of a child of that host.
C2_RegistryResolves ==
    \A h \in Hosts : \A n \in Range(hosts[h].reg) : Has(Children(h), n)

----------------------------------------------------------------------------
(* C3 *)

\* C3: in every reachable state no name appears twice in a registry.
C3_RegistryUnique ==
    \A h \in Hosts : \A i, j \in 1..Len(hosts[h].reg) :
        i # j => hosts[h].reg[i] # hosts[h].reg[j]

----------------------------------------------------------------------------
(* C4 *)

\* the layout of a returned state: the records are those of the registry
\* names, each a known tag with bytes; the children are the host's children
\* that are not managed, and none that is
StateLayout ==
    /\ LastBlob.hascg = last.pre.hasreg
    /\ KeySet(LastBlob.cg) = Range(last.pre.reg)
    /\ \A i \in 1..Len(LastBlob.cg) :
          /\ LastBlob.cg[i].v.tag \in {"fx", "torchscript"}
          /\ LastBlob.cg[i].v.buf.fmt \in {"pickle", "jit"}
    /\ LastBlobKids = NonManaged(last.pre.kids, last.pre.reg)

\* C4 as claimed: a returned state has that layout, and no compiled unit is
\* live anywhere in it.
C4_NoCompiledAnywhere ==
    SnapshotReturned =>
        /\ StateLayout
        /\ \A i \in 1..Len(LastBlobKids) : ~IsCompiled(LastBlobKids[i].v)

\* C4 as amended: a returned state has that layout, and no unit is live in
\* it under a managed name (a compiled child that is not in the registry
\* stays in the state's children).
C4_Layout ==
    SnapshotReturned =>
        /\ StateLayout
        /\ \A i \in 1..Len(LastBlobKids) : LastBlobKids[i].k \notin Range(last.pre.reg)

\* a state was returned for a host with a compiled managed unit and a
\* child that is not managed
C4_Witness ==
    /\ SnapshotReturned
    /\ \E n \in Range(last.pre.reg) : IsCompiled(Get(last.pre.kids, n))
    /\ Len(LastBlobKids) > 0
    /\ Len(LastBlob.cg) > 0

----------------------------------------------------------------------------
(* C5 *)

\* C5: the records of a returned state are in registry order, and
\* __setstate__ of that state on a fresh host gives exactly that registry,
\* names and order.
C5_Order ==
    SnapshotReturned =>
        /\ Keys(LastBlob.cg) = last.pre.reg
        /\ RoundTrip.ok
        /\ RoundTrip.host.reg = last.pre.reg

\* a state was returned for a registry of two names, "b" before "a"
C5_Witness ==
    /\ SnapshotReturned
    /\ last.pre.reg = <<"b", "a">>
    /\ RoundTrip.host.reg = <<"b", "a">>

----------------------------------------------------------------------------
(* C6 *)

\* C6: after a successful __setstate__ the registry is exactly the names of
\* the state's records in their order, and is empty when the state has no
\* "__codegen__" entry.
C6_RegistryExact ==
    (last.op = "restore" /\ last.ok) =>
        hosts[last.h].reg = IF LastBlob.hascg THEN Keys(LastBlob.cg) ELSE <<>>

----------------------------------------------------------------------------
(* C7 *)

\* C7 as claimed: a __getstate__ or __setstate__ that raises leaves the
\* host's children, registry and other fields as they were.
C7_Atomic ==
    (last.op \in {"snapshot", "restore"} /\ ~last.ok) => View(last.h) = last.pre

\* C7 as amended: a __getstate__ that raises leaves the host as it was (and
\* returns no state); a __setstate__ that raises leaves the registry as it
\* was, while the host already has the state's fields and holds the state's
\* dict of children, with the units decoded before the failing record.
C7_FailureEffect ==
    /\ (last.op = "snapshot" /\ ~last.ok) =>
          View(last.h) = last.pre /\ ~blobs[last.b].used
    /\ (last.op = "restore" /\ ~last.ok) =>
          /\ hosts[last.h].reg = last.pre.reg
          /\ hosts[last.h].hasreg = last.pre.hasreg
          /\ hosts[last.h].base = LastBlob.base
          /\ hosts[last.h].mods = LastBlob.mods

\* __setstate__ raised at the second record, after installing the first
C7_Witness ==
    /\ last.op = "restore" /\ ~last.ok
    /\ Len(LastBlob.cg) = 2
    /\ GoodRecord(LastBlob.cg[1].v) /\ ~GoodRecord(LastBlob.cg[2].v)
    /\ Has(Children(last.h), LastBlob.cg[1].k)
    /\ View(last.h) # last.pre

----------------------------------------------------------------------------
(* C8 *)

\* C8: __setstate__ returns normally only if every record has a known tag
\* and bytes that decode, with the decoder of the tag, to a unit of the
\* tag's representation; every record's name is then a child of the host,
\* in that representation.
C8_BadRecordRejected ==
    (last.op = "restore" /\ last.ok) =>
        \A i \in 1..Len(LastBlob.cg) :
            /\ GoodRecord(LastBlob.cg[i].v)
            /\ Has(Children(last.h), LastBlob.cg[i].k)
            /\ Kind(Get(Children(last.h), LastBlob.cg[i].k)) = KindOfTag(LastBlob.cg[i].v.tag)

\* __setstate__ raised on a state with a record of unknown tag
C8_Witness ==
    /\ last.op = "restore" /\ ~last.ok
    /\ \E i \in 1..Len(LastBlob.cg) : LastBlob.cg[i].v.tag = "bogus"

----------------------------------------------------------------------------
(* C9 *)

\* C9: after a successful _codegen_register every name of funcs is a child,
\* compiled exactly when the jit_mode read by the call was "script"; under
\* any other mode the child is the module that was passed in.
C9_ModeSensitive ==
    (last.op = "register" /\ last.ok) =>
        \A i \in 1..Len(last.funcs) :
            LET u == Get(Children(last.h), last.funcs[i].k)
            IN  /\ Has(Children(last.h), last.funcs[i].k)
                /\ IsCompiled(u) <=> last.mode = "script"
                /\ last.mode # "script" => u = last.funcs[i].v

\* a name registered in symbolic form was registered again under "script"
C9_Witness ==
    /\ last.op = "register" /\ last.ok /\ last.mode = "script"
    /\ \E i \in 1..Len(last.funcs) :
          /\ Kind(Get(last.pre.kids, last.funcs[i].k)) = "symbolic"
          /\ Kind(Get(Children(last.h), last.funcs[i].k)) = "compiled"

----------------------------------------------------------------------------
(* C10 *)

\* C10: __getstate__, whether it returns or raises, leaves the host's
\* children (names, order, units) and registry as they were, and the
\* returned state shares its dict of children with no host; an edit of the
\* state's children or records leaves the host it was taken from as it was
\* (as long as that host was not itself restored from this state).
C10_SnapshotFrame ==
    /\ last.op = "snapshot" =>
          /\ View(last.h) = last.pre
          /\ \A n \in Range(hosts[last.h].reg) :
                Has(last.pre.kids, n) => Has(Children(last.h), n)
          /\ last.ok => \A h \in Hosts : hosts[h].mods # LastBlob.mods
    /\ (last.op \in {"editchild", "editrecord"} /\ hosts[last.h].mods # LastBlob.mods) =>
          View(last.h) = last.pre

\* a state was returned for a host with managed units, which are still its
\* children and are not children of the state
C10_Witness ==
    /\ SnapshotReturned
    /\ Len(hosts[last.h].reg) > 0
    /\ \A n \in Range(hosts[last.h].reg) :
          Has(Children(last.h), n) /\ ~Has(LastBlobKids, n)

----------------------------------------------------------------------------
(* C11 *)

\* C11: when __getstate__ returns, __setstate__ of that state on a fresh
\* host gives a dict of children with the same names in the same order as
\* the host the state was taken from.
C11_ChildOrder ==
    SnapshotReturned => Keys(RoundTrip.kids) = Keys(last.pre.kids)

----------------------------------------------------------------------------
(* C12 *)

\* the unit a well-formed record stands for, by its tag alone
UnitOfRecord(rec) ==
    IF rec.tag = "fx" THEN [kind |-> rec.buf.cls, id |-> rec.buf.id]
    ELSE [kind |-> "script", id |-> rec.buf.id]

\* C12: whatever jit_mode is in force, after a successful __setstate__ every
\* record's name is a child that is the unit the record's bytes stand for,
\* of the representation of the record's tag (nothing is compiled); and
\* the tag __getstate__ writes is the representation of the live child.
C12_ModeIndependent ==
    /\ (last.op = "restore" /\ last.ok) =>
          \A i \in 1..Len(LastBlob.cg) :
              LET u == Get(Children(last.h), LastBlob.cg[i].k)
              IN  /\ u = UnitOfRecord(LastBlob.cg[i].v)
                  /\ Kind(u) = KindOfTag(LastBlob.cg[i].v.tag)
    /\ SnapshotReturned =>
          \A i \in 1..Len(LastBlob.cg) :
              KindOfTag(LastBlob.cg[i].v.tag) = Kind(Get(last.pre.kids, LastBlob.cg[i].k))

\* a state with a symbolic record was restored while jit_mode was "script"
C12_Witness ==
    /\ last.op = "restore" /\ last.ok /\ last.mode = "script"
    /\ \E i \in 1..Len(LastBlob.cg) :
          /\ LastBlob.cg[i].v.tag = "fx"
          /\ Kind(Get(Children(last.h), LastBlob.cg[i].k)) = "symbolic"
----------------------------------------------------------------------------
(* C13 *)

FuncNames == Range(Keys(last.funcs))

Outside(kids) == SelectSeq(kids, LAMBDA e : e.k \notin FuncNames)

\* C13: after a successful _codegen_register the registry is the former
\* registry followed by the names of funcs in their order, every name of
\* funcs maps to the unit installed by this call, and the children of other
\* names (and the host's other fields) are as they were.
C13_AppendOverwrite ==
    (last.op = "register" /\ last.ok) =>
        /\ hosts[last.h].hasreg
        /\ hosts[last.h].reg = last.pre.reg \o Keys(last.funcs)
        /\ \A i \in 1..Len(last.funcs) :
              Get(Children(last.h), last.funcs[i].k) =
                  IF last.mode = "script"
                  THEN [kind |-> "script", id |-> last.funcs[i].v.id]
                  ELSE last.funcs[i].v
        /\ Outside(Children(last.h)) = Outside(last.pre.kids)
        /\ hosts[last.h].base = last.pre.base

\* a second registration replaced one child and left another one alone
C13_Witness ==
    /\ last.op = "register" /\ last.ok
    /\ Len(last.pre.reg) > 0
    /\ \E n \in FuncNames :
          Has(last.pre.kids, n) /\ Get(last.pre.kids, n) # Get(Children(last.h), n)
    /\ Len(Outside(last.pre.kids)) > 0

----------------------------------------------------------------------------
(* C14 *)

\* C14: under "script" _codegen_register calls the compiler at most once
\* per unit; when the compiler raises on a unit the call raises at once:
\* that was its last call of the compiler, and neither that unit nor any
\* later one of funcs is installed.
C14_CompilerFailure ==
    (last.op = "register" /\ last.mode = "script") =>
        /\ last.ncomp <= Len(last.funcs)
        /\ last.cerr = 0 => last.ok /\ last.ncomp = Len(last.funcs)
        /\ last.cerr > 0 =>
              /\ ~last.ok
              /\ last.ncomp = last.cerr
              /\ \A i \in last.cerr..Len(last.funcs) :
                    /\ Has(Children(last.h), last.funcs[i].k) = Has(last.pre.kids, last.funcs[i].k)
                    /\ Get(Children(last.h), last.funcs[i].k) = Get(last.pre.kids, last.funcs[i].k)

\* the compiler raised on the first of two units; the second is no child
C14_Witness ==
    /\ last.op = "register" /\ last.mode = "script" /\ ~last.ok
    /\ last.cerr = 1 /\ Len(last.funcs) = 2
    /\ ~Has(Children(last.h), last.funcs[2].k)
----------------------------------------------------------------------------
(* C15 *)

\* a registry name of the snapshotted host resolved to a child that is
\* neither a graph module (optimized or not) nor a script module
UnknownManaged ==
    /\ last.pre.hasreg
    /\ \E n \in Range(last.pre.reg) :
          Has(last.pre.kids, n) /\ Kind(Get(last.pre.kids, n)) = "other"

\* C15: when a registry name resolves to a child of an unrecognized
\* representation, __getstate__ raises and no state is returned; a state
\* that is returned has a record for every registry name.
C15_UnknownAborts ==
    /\ (last.op = "snapshot" /\ UnknownManaged) =>
          ~last.ok /\ ~blobs[last.b].used
    /\ SnapshotReturned =>
          \A n \in Range(last.pre.reg) : Has(LastBlob.cg, n)

\* a snapshot was attempted on a host one of whose managed names holds a
\* plain module, after another managed unit that could be encoded
C15_Witness ==
    /\ last.op = "snapshot" /\ UnknownManaged /\ ~last.ok
    /\ Len(last.pre.reg) > 1
    /\ Kind(Get(last.pre.kids, last.pre.reg[1])) # "other"

----------------------------------------------------------------------------
(* C16 *)

\* C16: no host ever holds a (buffer_type, buffer) record: __setstate__
\* pops "__codegen__" before it updates __dict__; the registry is a list of
\* names; and as long as only _codegen_register, __getstate__ and
\* __setstate__ have acted, every managed child is a live graph module or
\* script module.
C16_NoRecordInHost ==
    \A h \in Hosts :
        /\ hosts[h].recs = <<>>
        /\ \A i \in 1..Len(hosts[h].reg) : hosts[h].reg[i] \in Names
        /\ last.pure =>
              \A n \in Range(hosts[h].reg) :
                  Has(Children(h), n) =>
                      Kind(Get(Children(h), n)) \in {"symbolic", "compiled"}

\* a host was restored from a state that carries records
C16_Witness ==
    /\ last.op = "restore" /\ last.ok /\ last.pure
    /\ Len(LastBlob.cg) > 0
    /\ hosts[last.h].reg = Keys(LastBlob.cg)
    /\ hosts[last.h].recs = <<>>
----------------------------------------------------------------------------
(* C17 *)

\* C17: __setstate__ leaves the state it is given as it was: after the
\* call, whether it returned or raised, the state's "_modules" holds the
\* names it held before the call.
C17_BlobUntouched ==
    last.op = "restore" =>
        /\ LastBlob.used
        /\ Keys(LastBlobKids) = Keys(last.bkids)

----------------------------------------------------------------------------
(* C18 *)

\* C18: on a host that only _codegen_register and __setstate__ calls have
\* changed, all of which returned normally, __getstate__ returns normally.
C18_SnapshotTotal ==
    (last.op = "snapshot" /\ last.pure /\ last.allok) => last.ok

----------------------------------------------------------------------------
(* C19 *)

\* the step is a call of _codegen_register or __setstate__ on host h
ChangesHost(h) ==
    /\ ncalls' = ncalls + 1
    /\ last'.op \in {"register", "restore"}
    /\ last'.h = h

\* C19: when two hosts were made from the same state, a call of
\* _codegen_register or __setstate__ on one of them leaves the registry
\* and the children of the other as they were.
C19_Independent ==
    [][\A h, g \in Hosts :
          (/\ h # g
           /\ hosts[h].origin # "none"
           /\ hosts[h].origin = hosts[g].origin
           /\ ChangesHost(h))
          => /\ hosts'[g].reg = hosts[g].reg
             /\ heap'[hosts'[g].mods] = heap[hosts[g].mods]]_vars

----------------------------------------------------------------------------
(* C20 *)

\* C20: when __getstate__ has returned a state, calling it again on the
\* host returns an equal state; and __getstate__ of the host that
\* __setstate__ makes from that state returns the same records (names,
\* order, tags, bytes), the same non-managed children and the same fields.
C20_Stable ==
    SnapshotReturned =>
        LET again == GetState(hosts[last.h], Children(last.h))
            s2 == GetState(RoundTrip.host, RoundTrip.kids)
        IN  /\ again.ok
            /\ again.hascg = LastBlob.hascg /\ again.cg = LastBlob.cg
            /\ again.kids = LastBlobKids /\ again.base = LastBlob.base
            /\ RoundTrip.ok /\ s2.ok
            /\ s2.hascg = LastBlob.hascg /\ s2.cg = LastBlob.cg
            /\ s2.kids = LastBlobKids /\ s2.base = LastBlob.base

\* the state holds the record of an optimized module and a child that is
\* not managed
C20_Witness ==
    /\ SnapshotReturned
    /\ \E i \in 1..Len(LastBlob.cg) : LastBlob.cg[i].v.buf.cls = "opt"
    /\ Len(LastBlobKids) > 0

====
